---- MODULE Spec2Model ----
(***************************************************************************)
(* Model of src/emoji_bot.py: the per-message pipeline of EmojiReactBot    *)
(* (on_message, should_ignore_message, is_tone_appropriate,                *)
(* get_emoji_reaction, prepare_message_content, extract_emoji,             *)
(* add_reaction) and the shutdown sequence of start().                     *)
(*                                                                         *)
(* A str is a sequence of one-character strings.  An Optional value is a   *)
(* sequence of length 0 (None) or 1.  A coroutine is cut into one action   *)
(* per stretch of code between two awaits on the network.                  *)
(***************************************************************************)
EXTENDS Integers, Sequences, FiniteSets, TLC

VARIABLES config, supports_vision, discord_has_InvalidArgument, messages, run,
          start_run

vars == <<config, supports_vision, discord_has_InvalidArgument, messages, run,
          start_run>>

----------------------------------------------------------------------------
(* Bounds of the model *)

\* longest generated message text
MaxTextLen == 2
\* most attachments of a message in Spec and SpecPipeline
MaxAttach == 1
\* most attachments of a message in SpecPrepare
MaxImages == 4

----------------------------------------------------------------------------
(* str *)

None == <<>>
Some(x) == <<x>>

\* a YAML null where a list is expected: no sequence, its DOMAIN tells
Null == [i \in {0} |-> 0]
IsNull(value) == 0 \in DOMAIN value

Whitespace == {" ", "\t", "\n"}

RECURSIVE LStrip(_)
LStrip(s) ==
    IF s # <<>> /\ Head(s) \in Whitespace THEN LStrip(Tail(s)) ELSE s

RECURSIVE RStrip(_)
RStrip(s) ==
    IF s # <<>> /\ s[Len(s)] \in Whitespace
    THEN RStrip(SubSeq(s, 1, Len(s) - 1))
    ELSE s

\* str.strip()
Strip(s) == RStrip(LStrip(s))

Uppers == <<"A","B","C","D","E","F","G","H","I","J","K","L","M",
            "N","O","P","Q","R","S","T","U","V","W","X","Y","Z">>
Lowers == <<"a","b","c","d","e","f","g","h","i","j","k","l","m",
            "n","o","p","q","r","s","t","u","v","w","x","y","z">>

UpperChar(c) ==
    IF \E i \in DOMAIN Lowers : Lowers[i] = c
    THEN Uppers[CHOOSE i \in DOMAIN Lowers : Lowers[i] = c]
    ELSE c

LowerChar(c) ==
    IF \E i \in DOMAIN Uppers : Uppers[i] = c
    THEN Lowers[CHOOSE i \in DOMAIN Uppers : Uppers[i] = c]
    ELSE c

\* str.upper(), str.lower()
Upper(s) == [i \in DOMAIN s |-> UpperChar(s[i])]
Lower(s) == [i \in DOMAIN s |-> LowerChar(s[i])]

\* str.startswith(prefix)
StartsWith(s, prefix) ==
    /\ Len(prefix) <= Len(s)
    /\ SubSeq(s, 1, Len(prefix)) = prefix

\* sub in s
Contains(s, sub) ==
    \E i \in 1..(Len(s) - Len(sub) + 1) : SubSeq(s, i, i + Len(sub) - 1) = sub

----------------------------------------------------------------------------
(* String literals of the program *)

StrYES == <<"Y","E","S">>
StrImage == <<"i","m","a","g","e">>
StrEmbedContent == <<"[","e","m","b","e","d"," ","c","o","n","t","e","n","t","]">>
StrMessage == <<"[","m","e","s","s","a","g","e","]">>
StrMediaContent == <<"[","i","m","a","g","e","/","m","e","d","i","a"," ",
                     "c","o","n","t","e","n","t","]">>

vision_indicators ==
    << <<"g","p","t","-","4">>,
       <<"g","p","t","-","4","o">>,
       <<"g","p","t","-","4",".","1">>,
       <<"v","i","s","i","o","n">>,
       <<"c","l","a","u","d","e">>,
       <<"g","e","m","i","n","i">> >>

\* the number of images one message contributes at most
ImageLimit == 3

----------------------------------------------------------------------------
(* Pure methods *)

\* config.get(key, default)
ConfigGet(key, default) ==
    IF key \in DOMAIN config THEN config[key] ELSE default

\* s[:n]
Take(s, n) == SubSeq(s, 1, IF Len(s) < n THEN Len(s) ELSE n)

is_vision_model(model) ==
    \E i \in DOMAIN vision_indicators :
        Contains(Lower(model), vision_indicators[i])

\* mutant: the channel check lets every channel through
channel_whitelisted_any(message) == TRUE

\* message.channel.id in self.config.get('whitelisted_channels', [])
channel_whitelisted(message) ==
    LET whitelisted_channels == ConfigGet("whitelisted_channels", <<>>)
    IN  \E i \in DOMAIN whitelisted_channels :
            whitelisted_channels[i] = message.channel_id

\* mutant: the bot rule is missing
should_ignore_message_bots_pass(message) ==
    LET content == Strip(message.content)
    IN  IF content = <<>> /\ message.embeds = <<>>
           /\ message.attachments = <<>>
        THEN TRUE
        ELSE IF message.type # "default" /\ message.type # "reply"
        THEN TRUE
        ELSE FALSE

\* mutant: the empty-message rule tests the raw text, not the trimmed text
should_ignore_message_untrimmed(message) ==
    IF ConfigGet("ignore_bots", TRUE) /\ message.author_bot
    THEN TRUE
    ELSE IF message.content = <<>> /\ message.embeds = <<>>
            /\ message.attachments = <<>>
    THEN TRUE
    ELSE IF message.type # "default" /\ message.type # "reply"
    THEN TRUE
    ELSE FALSE

should_ignore_message(message) ==
    LET content == Strip(message.content)
    IN  IF ConfigGet("ignore_bots", TRUE) /\ message.author_bot
        THEN TRUE
        ELSE IF content = <<>> /\ message.embeds = <<>>
                /\ message.attachments = <<>>
        THEN TRUE
        ELSE IF message.type # "default" /\ message.type # "reply"
        THEN TRUE
        ELSE FALSE

\* att.content_type and att.content_type.startswith("image")
is_image_attachment(att) ==
    /\ att.content_type # None
    /\ att.content_type[1] # <<>>
    /\ StartsWith(att.content_type[1], StrImage)

\* the positions, in attachment order, of message.attachments that are images
image_attachments(message) ==
    LET IsImage(i) == is_image_attachment(message.attachments[i])
    IN  SelectSeq([i \in DOMAIN message.attachments |-> i], IsImage)

\* mutant: images are downloaded whatever the model
images_to_fetch_any_model(message) ==
    IF message.attachments # <<>>
    THEN Take(image_attachments(message), ImageLimit)
    ELSE <<>>

\* mutant: every image is downloaded, the [:3] slice is missing
images_to_fetch_unlimited(message) ==
    IF supports_vision /\ message.attachments # <<>>
    THEN image_attachments(message)
    ELSE <<>>

\* the attachments prepare_message_content downloads: image_attachments[:3]
\* when the model supports vision, none otherwise
images_to_fetch(message) ==
    IF supports_vision /\ message.attachments # <<>>
    THEN Take(image_attachments(message), ImageLimit)
    ELSE <<>>

\* the text part prepare_message_content starts from
text_parts(message) ==
    IF Strip(message.content) # <<>>
    THEN << [type |-> "text", text |-> Strip(message.content)] >>
    ELSE <<>>

\* the image part built from a downloaded attachment
image_part(message, i) ==
    [type |-> "image_url",
     mime |-> message.attachments[i].content_type[1],
     data |-> i]

\* mutant: the parts collapse to their text whenever the first is text
prepared_content_text_first(content_parts, message) ==
    LET parts ==
            IF content_parts = <<>>
            THEN IF message.embeds # <<>>
                 THEN << [type |-> "text", text |-> StrEmbedContent] >>
                 ELSE << [type |-> "text", text |-> StrMessage] >>
            ELSE content_parts
    IN  IF parts[1].type = "text"
        THEN [form |-> "str", value |-> parts[1].text]
        ELSE [form |-> "parts", value |-> parts]

\* the value prepare_message_content returns for the parts collected
prepared_content(content_parts, message) ==
    LET parts ==
            IF content_parts = <<>>
            THEN IF message.embeds # <<>>
                 THEN << [type |-> "text", text |-> StrEmbedContent] >>
                 ELSE << [type |-> "text", text |-> StrMessage] >>
            ELSE content_parts
    IN  IF Len(parts) = 1 /\ parts[1].type = "text"
        THEN [form |-> "str", value |-> parts[1].text]
        ELSE [form |-> "parts", value |-> parts]

\* the user content of the tone request
tone_content(message) ==
    IF Strip(message.content) # <<>>
    THEN Strip(message.content)
    ELSE StrMediaContent

\* mutant: is_tone_appropriate fails closed
tone_except_closed == FALSE

\* what is_tone_appropriate returns from its except clause
tone_except_result == TRUE

\* what is_tone_appropriate returns for the outcome of its LLM call
tone_result(outcome) ==
    IF outcome.kind = "raise"
    THEN tone_except_result
    ELSE IF outcome.content = None
    THEN tone_except_result
    ELSE StartsWith(Upper(Strip(outcome.content[1])), StrYES)

\* mutant: the last character is returned, not the first
extract_emoji_last(text) ==
    IF text = <<>>
    THEN None
    ELSE IF Strip(text) # <<>>
    THEN Some(Strip(text)[Len(Strip(text))])
    ELSE None

extract_emoji(text) ==
    IF text = <<>>
    THEN None
    ELSE IF Strip(text) # <<>> THEN Some(Strip(text)[1]) ELSE None

\* mutant: a failed selection call falls back to a thumbs-up
emoji_result_thumbs_up(outcome) ==
    IF outcome.kind = "raise"
    THEN Some("U+1F44D")
    ELSE IF outcome.content = None
    THEN Some("U+1F44D")
    ELSE IF Strip(outcome.content[1]) # <<>>
    THEN Some(Strip(outcome.content[1])[1])
    ELSE None

\* mutant: the first character of the reply as it came, untrimmed
emoji_result_untrimmed(outcome) ==
    IF outcome.kind = "raise"
    THEN None
    ELSE IF outcome.content = None
    THEN None
    ELSE IF outcome.content[1] = <<>>
    THEN None
    ELSE Some(outcome.content[1][1])

\* what get_emoji_reaction returns for the outcome of its LLM call
emoji_result(outcome) ==
    IF outcome.kind = "raise"
    THEN None
    ELSE IF outcome.content = None
    THEN None
    ELSE extract_emoji(Strip(outcome.content[1]))

\* how the except clauses of add_reaction dispose of exception e: "caught",
\* or the exception that leaves add_reaction.  The clauses are tried in
\* order; naming a class the discord module does not define raises
\* AttributeError from the clause itself.
add_reaction_except(e) ==
    IF e = "Forbidden" THEN "caught"
    ELSE IF e = "NotFound" THEN "caught"
    ELSE IF ~discord_has_InvalidArgument THEN "AttributeError"
    ELSE IF e = "InvalidArgument" THEN "caught"
    ELSE IF e = "HTTPException" THEN "caught"
    ELSE "caught"

----------------------------------------------------------------------------
(* The coroutine of one message.  run[m] holds where on_message(m) stands  *)
(* (pc), its live locals, the request it is suspended on, and a record of  *)
(* what it did: called (methods entered, in order), sent (outbound calls   *)
(* issued, in order), got (how each outbound call ended), ignored (what    *)
(* should_ignore_message returned), raised (the exception that reached     *)
(* the except clause of on_message, if any), escaped (the exception that   *)
(* left on_message, if any).  responses lists how the downloads of the     *)
(* running get_emoji_reaction ended.                                       *)

NoRequest == [op |-> "none"]
NoOutcome == [kind |-> "none"]

NewRun ==
    [pc |-> "pending",
     ignored |-> None,
     is_appropriate |-> None,
     content_parts |-> <<>>,
     images |-> <<>>,
     idx |-> 0,
     responses |-> <<>>,
     emoji |-> None,
     request |-> NoRequest,
     called |-> <<>>,
     sent |-> <<>>,
     got |-> [tone |-> NoOutcome, select |-> NoOutcome, react |-> NoOutcome],
     raised |-> "none",
     escaped |-> "none"]

Enter(r, method) == [r EXCEPT !.called = Append(@, method)]

\* the coroutine issues an outbound call and suspends on it
Await(r, pc, arg, request) ==
    [r EXCEPT !.pc = pc,
              !.request = request,
              !.sent = Append(@, [op |-> request.op, arg |-> arg])]

\* on_message returns
Return(r) == [r EXCEPT !.pc = "done", !.request = NoRequest]

\* exception e leaves on_message
Raise(r, e) ==
    [r EXCEPT !.pc = "done", !.request = NoRequest, !.escaped = e]

\* mutant: the reaction goes to the first message delivered
add_reaction_first(r, message, emoji) ==
    Await(Enter(r, "add_reaction"), "await_react", <<1, emoji>>,
          [op |-> "react", message |-> 1, emoji |-> emoji])

\* add_reaction up to its await
add_reaction(r, message, emoji) ==
    Await(Enter(r, "add_reaction"), "await_react", <<message.id, emoji>>,
          [op |-> "react", message |-> message.id, emoji |-> emoji])

\* mutant: a selection that gave no emoji is asked once more
on_message_after_emoji_retry(r, message, emoji) ==
    IF emoji # None
    THEN add_reaction([r EXCEPT !.emoji = emoji, !.responses = <<>>],
                      message, emoji[1])
    ELSE IF Len(SelectSeq(r.sent, LAMBDA call : call.op = "select")) = 1
    THEN Await(r, "await_select", <<>>, r.request)
    ELSE Return([r EXCEPT !.emoji = emoji, !.responses = <<>>])

\* on_message after get_emoji_reaction returned emoji
on_message_after_emoji(r, message, emoji) ==
    IF emoji # None
    THEN add_reaction([r EXCEPT !.emoji = emoji, !.responses = <<>>],
                      message, emoji[1])
    ELSE Return([r EXCEPT !.emoji = emoji, !.responses = <<>>])

\* prepare_message_content after its loop, and get_emoji_reaction up to
\* its await
prepare_finish(r, message) ==
    Await([r EXCEPT !.content_parts = <<>>, !.images = <<>>, !.idx = 0],
          "await_select", <<>>,
          [op |-> "select",
           content |-> prepared_content(r.content_parts, message)])

\* the download loop of prepare_message_content, from image r.idx on, up to
\* the next await
prepare_loop(r, message) ==
    IF r.idx <= Len(r.images)
    THEN Await(r, "await_fetch", <<r.images[r.idx]>>,
               [op |-> "fetch", url |-> r.images[r.idx]])
    ELSE prepare_finish(r, message)

prepare_message_content(r, message) ==
    prepare_loop([Enter(r, "prepare_message_content") EXCEPT
                      !.content_parts = text_parts(message),
                      !.images = images_to_fetch(message),
                      !.idx = 1],
                 message)

get_emoji_reaction(r, message) ==
    prepare_message_content(Enter(r, "get_emoji_reaction"), message)

\* mutant: the verdict of the tone check is not looked at
on_message_after_tone_regardless(r, message, is_appropriate) ==
    get_emoji_reaction([r EXCEPT !.is_appropriate = Some(is_appropriate)],
                       message)

\* on_message after the tone check
on_message_after_tone(r, message, is_appropriate) ==
    IF ~is_appropriate
    THEN Return([r EXCEPT !.is_appropriate = Some(is_appropriate)])
    ELSE get_emoji_reaction([r EXCEPT !.is_appropriate = Some(is_appropriate)],
                            message)

\* is_tone_appropriate up to its await
is_tone_appropriate(r, message) ==
    Await(Enter(r, "is_tone_appropriate"), "await_tone", <<>>,
          [op |-> "tone", content |-> tone_content(message)])

\* mutant: the content is prepared and the emoji selected without a tone
\* check before
on_message_try_untoned(r, message) ==
    get_emoji_reaction(r, message)

\* on_message from its try statement up to its first await
on_message_try(r, message) ==
    IF ConfigGet("check_tone_appropriateness", TRUE)
    THEN is_tone_appropriate(r, message)
    ELSE get_emoji_reaction(r, message)

\* on_message up to its first await.  The channel check, the filter and
\* the "Processing message" log line stand before the try statement: `in`
\* on a null whitelist raises TypeError, and message.channel.name raises
\* AttributeError for a channel without a name (a direct-message channel).
on_message(r, message) ==
    IF IsNull(ConfigGet("whitelisted_channels", <<>>))
    THEN Raise(Enter(r, "on_message"), "TypeError")
    ELSE IF ~channel_whitelisted(message)
    THEN Return(Enter(r, "on_message"))
    ELSE LET entered == Enter(Enter(r, "on_message"), "should_ignore_message")
         IN  IF should_ignore_message(message)
             THEN Return([entered EXCEPT !.ignored = Some(TRUE)])
             ELSE IF "channel_name" \notin DOMAIN message
             THEN Raise([entered EXCEPT !.ignored = Some(FALSE)],
                        "AttributeError")
             ELSE on_message_try([entered EXCEPT !.ignored = Some(FALSE)],
                                 message)

----------------------------------------------------------------------------
(* What the collaborators can answer *)

Fire == "U+1F525"
ThumbsUp == "U+1F44D"

\* message.content of the tone model's reply (None: a reply without text)
ToneReplies ==
    { None,
      Some(<<"Y","E","S">>),
      Some(<<" ","y","e","s",".">>),
      Some(<<"N","O">>),
      Some(<<>>) }

\* message.content of the selection model's reply
SelectReplies ==
    { None,
      Some(<<Fire," ","a","w","e","s","o","m","e">>),
      Some(<<" ",ThumbsUp>>),
      Some(<<" ">>),
      Some(<<>>) }

\* what message.add_reaction can raise
ReactionErrors ==
    {"Forbidden", "NotFound", "HTTPException", "Exception"}
    \cup (IF discord_has_InvalidArgument THEN {"InvalidArgument"} ELSE {})

----------------------------------------------------------------------------
(* Actions *)

Ids == DOMAIN messages

\* a step of the coroutine of message m; none runs once start() has exited
Step(m, r) ==
    /\ start_run.pc # "exited"
    /\ run' = [run EXCEPT ![m] = r]
    /\ UNCHANGED <<config, supports_vision, discord_has_InvalidArgument,
                   messages, start_run>>

Got(r, call, outcome) == [r EXCEPT !.got[call] = outcome]

\* the platform delivers message m: on_message runs to its first await
OnMessage(m) ==
    /\ run[m].pc = "pending"
    /\ start_run.pc = "bot.start"
    /\ Step(m, on_message(run[m], messages[m]))

\* the tone call raises
ToneRaise(m) ==
    /\ run[m].pc = "await_tone"
    /\ LET outcome == [kind |-> "raise"]
       IN  Step(m, on_message_after_tone(Got(run[m], "tone", outcome),
                                         messages[m], tone_result(outcome)))

\* the tone call returns a reply
ToneReply(m) ==
    /\ run[m].pc = "await_tone"
    /\ \E content \in ToneReplies :
          LET outcome == [kind |-> "reply", content |-> content]
          IN  Step(m, on_message_after_tone(Got(run[m], "tone", outcome),
                                            messages[m], tone_result(outcome)))

\* the download of image r.idx answers 200
FetchOk(m) ==
    /\ run[m].pc = "await_fetch"
    /\ LET r == run[m]
       IN  Step(m, prepare_loop(
                [r EXCEPT !.content_parts =
                              Append(@, image_part(messages[m], r.images[r.idx])),
                          !.responses = Append(@, "200"),
                          !.idx = @ + 1],
                messages[m]))

\* the download answers another status
FetchBadStatus(m) ==
    /\ run[m].pc = "await_fetch"
    /\ Step(m, prepare_loop([run[m] EXCEPT !.responses = Append(@, "404"),
                                           !.idx = @ + 1],
                            messages[m]))

\* mutant: an exception of the download leaves prepare_message_content and
\* is caught by get_emoji_reaction, which returns None
FetchRaise_aborts(m) ==
    /\ run[m].pc = "await_fetch"
    /\ Step(m, on_message_after_emoji(run[m], messages[m], None))

\* the download raises
FetchRaise(m) ==
    /\ run[m].pc = "await_fetch"
    /\ Step(m, prepare_loop([run[m] EXCEPT !.responses = Append(@, "raise"),
                                           !.idx = @ + 1],
                            messages[m]))

\* the selection call raises
SelectRaise(m) ==
    /\ run[m].pc = "await_select"
    /\ LET outcome == [kind |-> "raise"]
       IN  Step(m, on_message_after_emoji(Got(run[m], "select", outcome),
                                          messages[m], emoji_result(outcome)))

\* the selection call returns a reply
SelectReply(m) ==
    /\ run[m].pc = "await_select"
    /\ \E content \in SelectReplies :
          LET outcome == [kind |-> "reply", content |-> content]
          IN  Step(m, on_message_after_emoji(Got(run[m], "select", outcome),
                                             messages[m], emoji_result(outcome)))

\* the reaction is added
ReactOk(m) ==
    /\ run[m].pc = "await_react"
    /\ Step(m, Return(Got(run[m], "react", [kind |-> "ok"])))

\* adding the reaction raises e
ReactFail(m) ==
    /\ run[m].pc = "await_react"
    /\ \E e \in ReactionErrors :
          LET disposed == add_reaction_except(e)
              r == Got(run[m], "react", [kind |-> "raise", error |-> e])
          IN  Step(m, Return([r EXCEPT !.raised =
                                  IF disposed = "caught" THEN "none"
                                  ELSE disposed]))

Next ==
    \/ \E m \in Ids : OnMessage(m)
    \/ \E m \in Ids : ToneRaise(m)
    \/ \E m \in Ids : ToneReply(m)
    \/ \E m \in Ids : FetchOk(m)
    \/ \E m \in Ids : FetchBadStatus(m)
    \/ \E m \in Ids : FetchRaise(m)
    \/ \E m \in Ids : SelectRaise(m)
    \/ \E m \in Ids : SelectReply(m)
    \/ \E m \in Ids : ReactOk(m)
    \/ \E m \in Ids : ReactFail(m)

\* every step the coroutine of message m can take
Pipeline(m) ==
    \/ OnMessage(m)
    \/ ToneRaise(m) \/ ToneReply(m)
    \/ FetchOk(m) \/ FetchBadStatus(m) \/ FetchRaise(m)
    \/ SelectRaise(m) \/ SelectReply(m)
    \/ ReactOk(m) \/ ReactFail(m)

----------------------------------------------------------------------------
(* start(): await self.bot.start(...) in a try statement whose finally     *)
(* clause awaits bot.close(), openai_client.close() and                    *)
(* httpx_client.aclose() one after the other.  start_run has pc (the await *)
(* start() stands at, or "exited"), outcome (how bot.start ended), the     *)
(* number of calls made of each close, and leaving (the exception that     *)
(* leaves start(), if any).                                                *)

\* how await self.bot.start(...) can end; KeyboardInterrupt and Exception
\* have an except clause, a cancellation has none
StartOutcomes == {"returned", "Exception", "KeyboardInterrupt", "CancelledError"}

StartStep(s) ==
    /\ start_run' = s
    /\ UNCHANGED <<config, supports_vision, discord_has_InvalidArgument,
                   messages, run>>

\* self.bot.start ends; control reaches the finally clause
BotStartEnds ==
    /\ start_run.pc = "bot.start"
    /\ \E outcome \in StartOutcomes :
          StartStep([start_run EXCEPT
                         !.pc = "bot.close",
                         !.outcome = outcome,
                         !.leaving = IF outcome = "CancelledError"
                                     THEN outcome ELSE "none"])

\* await self.bot.close() returns
BotCloseOk ==
    /\ start_run.pc = "bot.close"
    /\ StartStep([start_run EXCEPT !.pc = "openai_client.close",
                                   !.bot_closes = @ + 1])

\* await self.bot.close() raises: the rest of the finally clause is skipped
BotCloseRaise ==
    /\ start_run.pc = "bot.close"
    /\ StartStep([start_run EXCEPT !.pc = "exited",
                                   !.bot_closes = @ + 1,
                                   !.leaving = "Exception"])

\* await self.openai_client.close() returns
OpenaiCloseOk ==
    /\ start_run.pc = "openai_client.close"
    /\ StartStep([start_run EXCEPT !.pc = "httpx_client.aclose",
                                   !.openai_closes = @ + 1])

\* await self.openai_client.close() raises
OpenaiCloseRaise ==
    /\ start_run.pc = "openai_client.close"
    /\ StartStep([start_run EXCEPT !.pc = "exited",
                                   !.openai_closes = @ + 1,
                                   !.leaving = "Exception"])

\* await self.httpx_client.aclose() returns; start() is left
HttpxCloseOk ==
    /\ start_run.pc = "httpx_client.aclose"
    /\ StartStep([start_run EXCEPT !.pc = "exited",
                                   !.httpx_closes = @ + 1])

\* await self.httpx_client.aclose() raises
HttpxCloseRaise ==
    /\ start_run.pc = "httpx_client.aclose"
    /\ StartStep([start_run EXCEPT !.pc = "exited",
                                   !.httpx_closes = @ + 1,
                                   !.leaving = "Exception"])

NextStart ==
    \/ \E m \in Ids : OnMessage(m)
    \/ \E m \in Ids : ToneRaise(m)
    \/ \E m \in Ids : ToneReply(m)
    \/ \E m \in Ids : FetchOk(m)
    \/ \E m \in Ids : FetchBadStatus(m)
    \/ \E m \in Ids : FetchRaise(m)
    \/ \E m \in Ids : SelectRaise(m)
    \/ \E m \in Ids : SelectReply(m)
    \/ \E m \in Ids : ReactOk(m)
    \/ \E m \in Ids : ReactFail(m)
    \/ BotStartEnds
    \/ BotCloseOk
    \/ BotCloseRaise
    \/ OpenaiCloseOk
    \/ OpenaiCloseRaise
    \/ HttpxCloseOk
    \/ HttpxCloseRaise

----------------------------------------------------------------------------
(* Configurations and messages *)

\* the configuration with the keys that are given (an Optional each)
Configuration(whitelisted_channels, ignore_bots, check_tone, model) ==
    LET given == [whitelisted_channels |-> whitelisted_channels,
                  ignore_bots |-> ignore_bots,
                  check_tone_appropriateness |-> check_tone,
                  model |-> Some(model)]
    IN  [key \in {k \in DOMAIN given : given[k] # None} |-> given[key][1]]

Gpt35 == <<"g","p","t","-","3",".","5","-","t","u","r","b","o">>
GeminiPro == <<"G","e","m","i","n","i","-","P","r","o">>
Models == {Gpt35, GeminiPro}

OptionalBool == {None, Some(TRUE), Some(FALSE)}

\* the channels messages arrive in; channel 1 is the one a whitelist names
Channels == {1, 2}
Whitelists == {None, Some(<<>>), Some(<<1>>)}

TextLink == <<"h","t","t","p","s",":","/","/","e","x","a","m","p","l","e",
              ".","c","o","m">>
TextNiceLink == <<"n","i","c","e","!"," ">> \o TextLink
TextMention == <<"<","@","1","2","3","4","5","6","7","8","9",">">>

Alphabet == {" ", "a"}
TextsUpTo(n) == UNION {[1..k -> Alphabet] : k \in 0..n}
Texts == TextsUpTo(MaxTextLen) \cup {TextLink, TextNiceLink, TextMention}

ImagePng == <<"i","m","a","g","e","/","p","n","g">>
TextPlain == <<"t","e","x","t","/","p","l","a","i","n">>
Attachments == [content_type : {None, Some(ImagePng), Some(TextPlain)}]
AttachmentsUpTo(n) == UNION {[1..k -> Attachments] : k \in 0..n}

Embeds == {<<>>, <<"embed">>}
MessageTypes == {"default", "reply", "pins_add"}

\* one message event in a channel without a name (a direct message)
DirectMessage(id, channel_id, author_bot, content, attachments, embeds, type) ==
    [id |-> id, channel_id |-> channel_id, author_bot |-> author_bot,
     content |-> content, attachments |-> attachments, embeds |-> embeds,
     type |-> type]

\* one message event in a text channel
Message(id, channel_id, author_bot, content, attachments, embeds, type) ==
    [id |-> id, channel_id |-> channel_id, channel_name |-> "general",
     author_bot |-> author_bot,
     content |-> content, attachments |-> attachments, embeds |-> embeds,
     type |-> type]

\* start() awaiting self.bot.start, both client handles open
NewStart ==
    [pc |-> "bot.start",
     outcome |-> "none",
     bot_closes |-> 0,
     openai_closes |-> 0,
     httpx_closes |-> 0,
     leaving |-> "none"]

\* the state after construction, one message event pending
InitWith(configs, builds, events) ==
    /\ config \in configs
    /\ supports_vision = is_vision_model(config["model"])
    /\ discord_has_InvalidArgument \in builds
    /\ messages \in events
    /\ run = [m \in DOMAIN messages |-> NewRun]
    /\ start_run = NewStart

\* every configuration, every message event with few attachments
Init ==
    InitWith({Configuration(w, b, t, g) :
                  w \in Whitelists, b \in OptionalBool, t \in OptionalBool,
                  g \in Models},
             BOOLEAN,
             {<<Message(1, c, a, t, f, e, y)>> :
                  c \in Channels, a \in BOOLEAN, t \in Texts,
                  f \in AttachmentsUpTo(MaxAttach), e \in Embeds,
                  y \in MessageTypes})

Spec == Init /\ [][Next]_vars

\* admitted messages with many attachments, for prepare_message_content
InitPrepare ==
    InitWith({Configuration(Some(<<1>>), None, t, g) :
                  t \in {None, Some(FALSE)}, g \in Models},
             BOOLEAN,
             {<<Message(1, 1, FALSE, t, f, e, "default")>> :
                  t \in {<<>>, <<" ">>, <<" ", "a">>},
                  f \in AttachmentsUpTo(MaxImages), e \in Embeds})

SpecPrepare == InitPrepare /\ [][Next]_vars

\* the whole bot: start() with its shutdown, a whitelist that may be null,
\* a message that may come from a channel without a name
InitStart ==
    InitWith({Configuration(w, None, t, g) :
                  w \in {Some(Null), Some(<<1>>)},
                  t \in {None, Some(FALSE)}, g \in Models},
             BOOLEAN,
             {<<Message(1, 1, FALSE, t, f, <<>>, "default")>> :
                  t \in {<<>>, <<"a">>}, f \in AttachmentsUpTo(MaxAttach)}
             \cup
             {<<DirectMessage(1, 1, FALSE, t, f, <<>>, "default")>> :
                  t \in {<<>>, <<"a">>}, f \in AttachmentsUpTo(MaxAttach)})

SpecStart == InitStart /\ [][NextStart]_vars

\* two messages in flight at once, each with or without an image
PairAttachments == {<<>>, <<[content_type |-> Some(ImagePng)]>>}

InitPair ==
    InitWith({Configuration(Some(<<1>>), None, t, GeminiPro) :
                  t \in {None, Some(FALSE)}},
             {TRUE},
             {<<Message(1, 1, FALSE, <<"a">>, f1, <<>>, "default"),
                Message(2, 1, FALSE, <<" ", "a">>, f2, <<>>, "default")>> :
                  f1 \in PairAttachments, f2 \in PairAttachments})

SpecPair == InitPair /\ [][Next]_vars

\* a message with more images than are fetched, and one without any
InitLive ==
    InitWith({Configuration(Some(<<1>>), None, None, GeminiPro)},
             BOOLEAN,
             {<<Message(1, 1, FALSE, <<"a">>,
                        [i \in 1..MaxImages |-> [content_type |-> Some(ImagePng)]],
                        <<>>, "default"),
                Message(2, 1, FALSE, <<"a">>, <<>>, <<>>, "reply")>>})

\* the event loop resumes every coroutine whose awaited call has ended,
\* and every outbound call ends (with a reply or an exception)
SpecLive == InitLive /\ [][Next]_vars /\ \A m \in {1, 2} : WF_vars(Pipeline(m))

----------------------------------------------------------------------------
(* Vocabulary of the properties, stated on the message and the record of  *)
(* the run, not through the methods of the bot                             *)

Delivered(m) == run[m].pc # "pending"
Finished(m) == run[m].pc = "done"

\* how many outbound calls of kind op the run of m has issued
Sends(m, op) ==
    Cardinality({i \in DOMAIN run[m].sent : run[m].sent[i].op = op})

\* the arguments of the outbound calls of kind op, in the order issued
ArgsOf(m, op) ==
    LET IsOp(x) == x.op = op
        calls == SelectSeq(run[m].sent, IsOp)
    IN  [i \in DOMAIN calls |-> calls[i].arg]

Entered(m, method) ==
    \E i \in DOMAIN run[m].called : run[m].called[i] = method

KeyGiven(key) == key \in DOMAIN config

\* the channel of m is listed in the configuration
InWhitelist(m) ==
    /\ KeyGiven("whitelisted_channels")
    /\ \E i \in DOMAIN config["whitelisted_channels"] :
          config["whitelisted_channels"][i] = messages[m].channel_id

\* ignore_bots is true or absent
IgnoreBotsOn == ~KeyGiven("ignore_bots") \/ config["ignore_bots"] = TRUE

\* check_tone_appropriateness is true or absent
ToneCheckOn ==
    \/ ~KeyGiven("check_tone_appropriateness")
    \/ config["check_tone_appropriateness"] = TRUE

Blank(text) == \A i \in DOMAIN text : text[i] \in Whitespace

\* a message the three rules of should_ignore_message let through
Eligible(m) ==
    /\ ~(IgnoreBotsOn /\ messages[m].author_bot)
    /\ ~(Blank(messages[m].content) /\ messages[m].embeds = <<>>
         /\ messages[m].attachments = <<>>)
    /\ messages[m].type \in {"default", "reply"}

DeclaredImage(att) ==
    /\ Len(att.content_type) = 1
    /\ Len(att.content_type[1]) >= 5
    /\ SubSeq(att.content_type[1], 1, 5) = <<"i","m","a","g","e">>

----------------------------------------------------------------------------
(* C1 *)

\* C1: a delivered message whose channel is not in whitelisted_channels
\* (the list empty or absent included) has returned from on_message at the
\* channel check: should_ignore_message was not entered and no outbound
\* call (tone, select, fetch, react) was issued for it.
C1_NotWhitelistedStopsAtChannelCheck ==
    \A m \in Ids :
        Delivered(m) /\ ~InWhitelist(m)
            => /\ Finished(m)
               /\ run[m].called = <<"on_message">>
               /\ run[m].ignored = None
               /\ run[m].sent = <<>>

\* an eligible message outside a non-empty whitelist was delivered
C1_Witness ==
    \E m \in Ids :
        /\ Delivered(m) /\ ~InWhitelist(m) /\ Eligible(m)
        /\ KeyGiven("whitelisted_channels")
        /\ config["whitelisted_channels"] # <<>>
        /\ messages[m].attachments # <<>>

----------------------------------------------------------------------------
(* C2 *)

\* the tone call raised, or its reply carried no text
ToneCallFailed(m) ==
    \/ run[m].got.tone.kind = "raise"
    \/ /\ run[m].got.tone.kind = "reply"
       /\ run[m].got.tone.content = None

\* C2: when the tone call of a message fails, is_tone_appropriate returns
\* true and the run goes on into get_emoji_reaction: it is downloading
\* images or has issued exactly one selection call, and was not dropped
\* before it.
C2_ToneFailureFailsOpen ==
    \A m \in Ids :
        ToneCallFailed(m)
            => /\ run[m].is_appropriate = Some(TRUE)
               /\ Entered(m, "get_emoji_reaction")
               /\ \/ run[m].pc = "await_fetch" /\ Sends(m, "select") = 0
                  \/ Sends(m, "select") = 1

\* the tone call raised and the selection call is in flight
C2_Witness ==
    \E m \in Ids :
        /\ run[m].got.tone.kind = "raise"
        /\ run[m].pc = "await_select"

----------------------------------------------------------------------------
(* C3 *)

\* C3: whatever message.add_reaction raises, add_reaction returns normally:
\* no exception reaches the except clause of on_message.
C3_AddReactionNeverRaises ==
    \A m \in Ids :
        run[m].got.react.kind = "raise" => run[m].raised = "none"

----------------------------------------------------------------------------
(* C4 *)

ToneSaidYes(m) ==
    /\ run[m].got.tone.kind = "reply"
    /\ run[m].got.tone.content # None
    /\ LET reply == LStrip(run[m].got.tone.content[1])
       IN  /\ Len(reply) >= 3
           /\ Upper(SubSeq(reply, 1, 3)) = <<"Y","E","S">>

\* the selector replied with the text `reply`
SelectorSaid(m, reply) ==
    /\ run[m].got.select.kind = "reply"
    /\ run[m].got.select.content = Some(reply)

TextOnly(m) ==
    messages[m].attachments = <<>> /\ messages[m].embeds = <<>>

\* the run of m ended with one reaction call, on m, with the first
\* non-whitespace character of reply
ReactedOnceWith(m, reply) ==
    /\ Sends(m, "react") = 1
    /\ ArgsOf(m, "react") = << <<messages[m].id, LStrip(reply)[1]>> >>

\* C4 as stated: for an eligible text-only message in a whitelisted
\* channel, tone check on and answered YES, and ANY non-empty selector
\* reply, add_reaction is invoked exactly once.
C4_Original ==
    \A m \in Ids :
        \A c \in SelectReplies :
            ( /\ Finished(m) /\ InWhitelist(m) /\ Eligible(m) /\ TextOnly(m)
              /\ ToneCheckOn /\ ToneSaidYes(m)
              /\ c # None /\ c # Some(<<>>)
              /\ run[m].got.select.kind = "reply"
              /\ run[m].got.select.content = c )
                => ReactedOnceWith(m, c[1])

\* C4 (amended): for an eligible text-only message in a whitelisted channel,
\* tone check on and answered YES, and a selector reply with at least one
\* non-whitespace character, the finished run has invoked add-reaction
\* exactly once, on that message, with the first non-whitespace character
\* of the reply; no run ever invokes it more than once.
C4_ReactsExactlyOnce ==
    \A m \in Ids :
        /\ Sends(m, "react") <= 1
        /\ \A c \in SelectReplies :
              ( /\ Finished(m) /\ InWhitelist(m) /\ Eligible(m) /\ TextOnly(m)
                /\ ToneCheckOn /\ ToneSaidYes(m)
                /\ c # None /\ ~Blank(c[1])
                /\ run[m].got.select.kind = "reply"
                /\ run[m].got.select.content = c )
                  => ReactedOnceWith(m, c[1])

\* the scenario of the specification: YES, then the reply "<fire> awesome"
C4_Witness ==
    \E m \in Ids :
        /\ Finished(m) /\ InWhitelist(m) /\ Eligible(m) /\ TextOnly(m)
        /\ ToneCheckOn /\ ToneSaidYes(m)
        /\ SelectorSaid(m, <<Fire," ","a","w","e","s","o","m","e">>)
        /\ ArgsOf(m, "react") = << <<messages[m].id, Fire>> >>

----------------------------------------------------------------------------
(* C5, C6: the link and mention rules of the admission filter *)

UrlPrefixes ==
    { <<"h","t","t","p",":","/","/">>,
      <<"h","t","t","p","s",":","/","/">>,
      <<"w","w","w",".">> }

\* text begins with a URL: a prefix followed by a non-whitespace character
BeginsWithUrl(text) ==
    \E p \in UrlPrefixes :
        /\ Len(text) > Len(p)
        /\ SubSeq(text, 1, Len(p)) = p
        /\ text[Len(p) + 1] \notin Whitespace

RECURSIVE DropWord(_)
DropWord(text) ==
    IF text # <<>> /\ Head(text) \notin Whitespace
    THEN DropWord(Tail(text))
    ELSE text

\* text with every URL-like substring removed
RECURSIVE WithoutUrls(_)
WithoutUrls(text) ==
    IF text = <<>> THEN <<>>
    ELSE IF BeginsWithUrl(text) THEN WithoutUrls(DropWord(text))
    ELSE <<Head(text)>> \o WithoutUrls(Tail(text))

\* the trimmed text holds a URL and fewer than 3 characters beside URLs
LinksOnly(text) ==
    LET trimmed == LStrip(RStrip(text))
    IN  /\ WithoutUrls(trimmed) # trimmed
        /\ Len(WithoutUrls(trimmed)) < 3

MentionSyntax ==
    {"<", "@", ">", "!", "#", "&",
     "0", "1", "2", "3", "4", "5", "6", "7", "8", "9"}

\* the trimmed text is non-empty and made of mention syntax only
MentionOnly(text) ==
    LET trimmed == LStrip(RStrip(text))
    IN  /\ trimmed # <<>>
        /\ \A i \in DOMAIN trimmed : trimmed[i] \in MentionSyntax

\* C5: a delivered message in a whitelisted channel whose text is links
\* only is ignored by the admission filter, with no outbound call made for
\* it (ignore_links_only is at its default, enabled); an eligible message
\* with the text "nice! https://example.com" is not ignored.
C5_LinksOnlyIgnored ==
    \A m \in Ids :
        /\ Delivered(m) /\ InWhitelist(m) /\ LinksOnly(messages[m].content)
              => /\ run[m].ignored = Some(TRUE)
                 /\ run[m].sent = <<>>
        /\ ( /\ Delivered(m) /\ InWhitelist(m) /\ Eligible(m)
             /\ messages[m].content = TextNiceLink )
              => /\ ~LinksOnly(messages[m].content)
                 /\ run[m].ignored = Some(FALSE)

\* C6: a delivered message in a whitelisted channel whose text is mention
\* syntax only is ignored by the admission filter, with no outbound call
\* made for it.
C6_MentionOnlyIgnored ==
    \A m \in Ids :
        Delivered(m) /\ InWhitelist(m) /\ MentionOnly(messages[m].content)
            => /\ run[m].ignored = Some(TRUE)
               /\ run[m].sent = <<>>

----------------------------------------------------------------------------
(* C7 *)

\* C7: a delivered message of a bot author, ignore_bots true or absent, has
\* returned from on_message with no outbound call made, whatever its text,
\* attachments, embeds and type; where the filter ran it returned ignore.
C7_BotAuthorsIgnored ==
    \A m \in Ids :
        Delivered(m) /\ messages[m].author_bot /\ IgnoreBotsOn
            => /\ Finished(m)
               /\ run[m].sent = <<>>
               /\ InWhitelist(m) => run[m].ignored = Some(TRUE)

\* a bot's message that the other two rules would let through was ignored
C7_Witness ==
    \E m \in Ids :
        /\ Delivered(m) /\ InWhitelist(m)
        /\ messages[m].author_bot /\ IgnoreBotsOn
        /\ ~Blank(messages[m].content)
        /\ messages[m].attachments # <<>>
        /\ messages[m].type = "default"
        /\ run[m].ignored = Some(TRUE)

----------------------------------------------------------------------------
(* C8 *)

\* C8: where the admission filter ran, a message with empty or
\* whitespace-only text, no embeds and no attachments was ignored; a
\* message with such text and an embed or an attachment, which the bot rule
\* and the type rule let through, was not ignored.
C8_EmptyMessagesIgnored ==
    \A m \in Ids :
        run[m].ignored # None /\ Blank(messages[m].content)
            => /\ (messages[m].embeds = <<>> /\ messages[m].attachments = <<>>)
                    => run[m].ignored = Some(TRUE)
               /\ Eligible(m) => run[m].ignored = Some(FALSE)

\* a whitespace-only message of a person, of type default, with nothing
\* attached, was ignored; so only the empty-message rule can have done it
C8_Witness ==
    \E m \in Ids :
        /\ messages[m].content = <<" ">>
        /\ messages[m].embeds = <<>> /\ messages[m].attachments = <<>>
        /\ ~messages[m].author_bot /\ messages[m].type = "default"
        /\ run[m].ignored = Some(TRUE)

----------------------------------------------------------------------------
(* C9, C10: prepare_message_content *)

\* prepare_message_content has returned in the run of m
Prepared(m) ==
    Entered(m, "prepare_message_content") /\ run[m].pc # "await_fetch"

\* the text a model without vision is to be sent for m
TextOrFallback(m) ==
    IF ~Blank(messages[m].content)
    THEN LStrip(RStrip(messages[m].content))
    ELSE IF messages[m].embeds = <<>>
    THEN <<"[","m","e","s","s","a","g","e","]">>
    ELSE <<"[","e","m","b","e","d"," ","c","o","n","t","e","n","t","]">>

\* C9: when the model is not vision-capable no image is ever fetched, and
\* the content sent to the selector is the plain trimmed text of the
\* message, or the fallback text when that is empty.
C9_NoVisionNoFetch ==
    \A m \in Ids :
        ~supports_vision
            => /\ Sends(m, "fetch") = 0
               /\ run[m].pc = "await_select"
                    => /\ run[m].request.content.form = "str"
                       /\ run[m].request.content.value = TextOrFallback(m)

\* without vision, a message with an image attached and no text or embed
\* was prepared as "[message]"
C9_Witness ==
    \E m \in Ids :
        /\ ~supports_vision
        /\ \E i \in DOMAIN messages[m].attachments :
              DeclaredImage(messages[m].attachments[i])
        /\ run[m].pc = "await_select"
        /\ run[m].request.content.form = "str"
        /\ run[m].request.content.value = <<"[","m","e","s","s","a","g","e","]">>

ImageParts(parts) ==
    Cardinality({i \in DOMAIN parts : parts[i].type = "image_url"})

\* the attachments of m that declare an image type, as a set of positions
DeclaredImages(m) ==
    {i \in DOMAIN messages[m].attachments :
        DeclaredImage(messages[m].attachments[i])}

\* C10: a run fetches at most 3 images and emits at most 3 image parts; the
\* attachments fetched declare an image type and are fetched in attachment
\* order without passing over an image; once prepare_message_content has
\* returned under a vision model, the first 3 images (or all, if fewer)
\* were fetched.
C10_AtMostThreeImages ==
    \A m \in Ids :
        LET fetched == ArgsOf(m, "fetch")
        IN  /\ Len(fetched) <= 3
            /\ ImageParts(run[m].content_parts) <= 3
            /\ (run[m].pc = "await_select"
                /\ run[m].request.content.form = "parts")
                  => ImageParts(run[m].request.content.value) <= 3
            /\ \A j \in DOMAIN fetched :
                  /\ fetched[j][1] \in DeclaredImages(m)
                  /\ \A k \in DOMAIN fetched :
                        j < k => fetched[j][1] < fetched[k][1]
                  /\ \A i \in DeclaredImages(m) :
                        i < fetched[j][1]
                          => \E k \in DOMAIN fetched : fetched[k][1] = i
            /\ (Prepared(m) /\ supports_vision)
                  => Len(fetched) =
                        (IF Cardinality(DeclaredImages(m)) < 3
                         THEN Cardinality(DeclaredImages(m))
                         ELSE 3)

\* a message with more than 3 images was prepared with 3 fetches and 3
\* image parts
C10_Witness ==
    \E m \in Ids :
        /\ Cardinality(DeclaredImages(m)) > 3
        /\ run[m].pc = "await_select"
        /\ Len(ArgsOf(m, "fetch")) = 3
        /\ run[m].request.content.form = "parts"
        /\ ImageParts(run[m].request.content.value) = 3

----------------------------------------------------------------------------
(* C11, C20: what prepare_message_content returns *)

\* the selection request of m is in flight
Selecting(m) == run[m].pc = "await_select"

\* the positions, among the downloads of m, of those answered with 200
Downloaded(m) ==
    {j \in DOMAIN run[m].responses : run[m].responses[j] = "200"}

\* the parts sent to the selector for m (none when a plain string was sent)
PartsSent(m) ==
    IF run[m].request.content.form = "parts"
    THEN run[m].request.content.value
    ELSE <<>>

\* the positions in parts of the image parts
ImagePositions(parts) == {i \in DOMAIN parts : parts[i].type = "image_url"}

\* C11: a download that raises or answers another status than 200 skips
\* only its image.  When the selection request is in flight, the image
\* parts sent are exactly the attachments whose download answered 200, in
\* attachment order; the trimmed text is sent (as the plain string or as the
\* first part) when the message has text; and once the downloads of a run
\* are over, the selection call has been made, once.
C11_FailedFetchSkipsOnlyThatImage ==
    \A m \in Ids :
        /\ (Sends(m, "fetch") > 0 /\ run[m].pc # "await_fetch")
              => Sends(m, "select") = 1
        /\ Selecting(m)
              => LET fetched == ArgsOf(m, "fetch")
                     parts == PartsSent(m)
                     sent == run[m].request.content
                 IN  /\ Len(run[m].responses) = Len(fetched)
                     /\ Cardinality(ImagePositions(parts))
                            = Cardinality(Downloaded(m))
                     /\ \A j \in Downloaded(m) :
                           \E i \in ImagePositions(parts) :
                              parts[i].data = fetched[j][1]
                     /\ \A i \in ImagePositions(parts) :
                           \A k \in ImagePositions(parts) :
                              i < k => parts[i].data < parts[k].data
                     /\ ~Blank(messages[m].content)
                           => IF sent.form = "str"
                              THEN sent.value
                                     = LStrip(RStrip(messages[m].content))
                              ELSE /\ parts[1].type = "text"
                                   /\ parts[1].text
                                        = LStrip(RStrip(messages[m].content))

\* the first download raised, the second answered 200: the text and the
\* second image were sent to the selector
C11_Witness ==
    \E m \in Ids :
        /\ Selecting(m)
        /\ Len(run[m].responses) >= 2
        /\ run[m].responses[1] = "raise"
        /\ run[m].responses[2] = "200"
        /\ ~Blank(messages[m].content)
        /\ Len(PartsSent(m)) >= 2
        /\ PartsSent(m)[1].type = "text"
        /\ PartsSent(m)[2].type = "image_url"
        /\ PartsSent(m)[2].data = ArgsOf(m, "fetch")[2][1]

\* how many parts prepare_message_content produced for m before its
\* fallback: the text, if any, and one per download answered 200
Produced(m) ==
    (IF Blank(messages[m].content) THEN 0 ELSE 1) + Cardinality(Downloaded(m))

\* C20: the content sent to the selector is never empty.  It is a plain
\* string exactly when no image part was produced: the trimmed text, or,
\* when no part at all was produced, "[embed content]" for a message with
\* embeds and "[message]" otherwise.  As soon as an image part was produced
\* it is the sequence of the parts produced: the text part first when the
\* message has text, then image parts only.
C20_PreparedContentShape ==
    \A m \in Ids :
        Selecting(m)
          => LET sent == run[m].request.content
                 text == LStrip(RStrip(messages[m].content))
             IN  /\ sent.value # <<>>
                 /\ sent.form = "str" <=> Downloaded(m) = {}
                 /\ (sent.form = "str" /\ Produced(m) = 1)
                       => sent.value = text
                 /\ (Produced(m) = 0 /\ messages[m].embeds # <<>>)
                       => /\ sent.form = "str"
                          /\ sent.value = <<"[","e","m","b","e","d"," ",
                                             "c","o","n","t","e","n","t","]">>
                 /\ (Produced(m) = 0 /\ messages[m].embeds = <<>>)
                       => /\ sent.form = "str"
                          /\ sent.value = <<"[","m","e","s","s","a","g","e","]">>
                 /\ sent.form = "parts"
                       => /\ Len(sent.value) = Produced(m)
                          /\ \A i \in DOMAIN sent.value :
                                IF i = 1 /\ text # <<>>
                                THEN /\ sent.value[i].type = "text"
                                     /\ sent.value[i].text = text
                                ELSE sent.value[i].type = "image_url"

\* a message with an embed, no text and one image whose download failed
\* was sent as the string "[embed content]"
C20_Witness ==
    \E m \in Ids :
        /\ Selecting(m)
        /\ Blank(messages[m].content)
        /\ messages[m].embeds # <<>>
        /\ Len(run[m].responses) = 1
        /\ Downloaded(m) = {}
        /\ run[m].request.content.form = "str"
        /\ run[m].request.content.value = <<"[","e","m","b","e","d"," ",
                                             "c","o","n","t","e","n","t","]">>

----------------------------------------------------------------------------
(* C12 *)

\* C12: once the selector has replied with a text, an empty or
\* whitespace-only text gives no emoji and no reaction call is ever made
\* for the message; a text with a non-whitespace character gives exactly
\* the first character of the trimmed text.
C12_ExtractFirstCharOrNothing ==
    \A m \in Ids :
        \A reply \in {c[1] : c \in SelectReplies \ {None}} :
            SelectorSaid(m, reply)
              => IF Blank(reply)
                 THEN /\ run[m].emoji = None
                      /\ Sends(m, "react") = 0
                      /\ Finished(m)
                 ELSE run[m].emoji = Some(LStrip(reply)[1])

\* the selector replied " " and the run ended without a reaction call
C12_Witness ==
    \E m \in Ids :
        /\ SelectorSaid(m, <<" ">>)
        /\ Finished(m)
        /\ run[m].emoji = None
        /\ Sends(m, "react") = 0

----------------------------------------------------------------------------
(* C16 *)

\* the tone classifier replied with a text that, trimmed and uppercased,
\* does not start with YES
ToneSaidOtherThanYes(m) ==
    /\ run[m].got.tone.kind = "reply"
    /\ run[m].got.tone.content # None
    /\ ~ToneSaidYes(m)

\* C16: after a tone reply that does not start with YES the run is over and
\* the tone call is the only outbound call it ever made: no download, no
\* selection call, no reaction call.  With check_tone_appropriateness false
\* no tone call is made at all.
C16_ToneNoDropsWithoutFurtherWork ==
    \A m \in Ids :
        /\ ToneSaidOtherThanYes(m)
              => /\ Finished(m)
                 /\ Len(run[m].sent) = 1
                 /\ Sends(m, "tone") = 1
                 /\ Sends(m, "fetch") = 0
                 /\ Sends(m, "select") = 0
                 /\ Sends(m, "react") = 0
        /\ ~ToneCheckOn => Sends(m, "tone") = 0

\* under a vision model a message with an image had its tone answered NO
\* and ended with the tone call alone
C16_Witness ==
    \E m \in Ids :
        /\ supports_vision
        /\ \E i \in DOMAIN messages[m].attachments :
              DeclaredImage(messages[m].attachments[i])
        /\ run[m].got.tone.kind = "reply"
        /\ run[m].got.tone.content = Some(<<"N","O">>)
        /\ Finished(m)
        /\ Len(run[m].sent) = 1

----------------------------------------------------------------------------
(* C13 *)

\* C13 as stated: with the tone check enabled, a tone call is issued only
\* once prepare_message_content has returned.
C13_Original ==
    \A m \in Ids :
        (ToneCheckOn /\ Sends(m, "tone") > 0) => Prepared(m)

\* the place of each outbound call in the order of a run
StageOf(op) ==
    CASE op = "tone" -> 1
      [] op = "fetch" -> 2
      [] op = "select" -> 3
      [] op = "react" -> 4

\* C13, amended: the tone check comes first.  With the tone check enabled,
\* prepare_message_content is entered only after the tone call, the first
\* outbound call of the run, has ended; in every run the outbound calls
\* follow the order tone, downloads, selection, reaction; and the
\* selection call is issued only once prepare_message_content has
\* returned.
C13_ToneCheckBeforePreparation ==
    \A m \in Ids :
        /\ (ToneCheckOn /\ Entered(m, "prepare_message_content"))
              => /\ run[m].sent[1].op = "tone"
                 /\ run[m].got.tone.kind # "none"
        /\ \A i \in DOMAIN run[m].sent :
              \A j \in DOMAIN run[m].sent :
                 i < j => StageOf(run[m].sent[i].op) <= StageOf(run[m].sent[j].op)
        /\ Sends(m, "select") > 0 => Prepared(m)
        /\ Sends(m, "tone") <= 1

\* a run with the tone check enabled went through tone call, download,
\* selection call and reaction call, in that order
C13_Witness ==
    \E m \in Ids :
        /\ ToneCheckOn
        /\ Finished(m)
        /\ Len(run[m].sent) = 4
        /\ run[m].sent[1].op = "tone"
        /\ run[m].sent[2].op = "fetch"
        /\ run[m].sent[3].op = "select"
        /\ run[m].sent[4].op = "react"

----------------------------------------------------------------------------
(* C14 *)

\* C14: no exception leaves on_message, whatever the configuration and the
\* message.
C14_OnMessageNeverRaises ==
    \A m \in Ids : run[m].escaped = "none"

----------------------------------------------------------------------------
(* C17 *)

\* C17: when start() is left, however bot.start ended and whichever step of
\* the shutdown failed, the close of the LLM client and the close of the
\* HTTP client have each been called exactly once.
C17_HandlesReleasedOnce ==
    start_run.pc = "exited"
        => /\ start_run.openai_closes = 1
           /\ start_run.httpx_closes = 1

----------------------------------------------------------------------------
(* C15 *)

\* the selection call of m raised, or its reply carried no text
SelectCallFailed(m) ==
    \/ run[m].got.select.kind = "raise"
    \/ /\ run[m].got.select.kind = "reply"
       /\ run[m].got.select.content = None

\* C15: once the selection call of a message has failed, its run is over
\* with no emoji, no reaction call and no exception raised into or out of
\* on_message; and the step on which the call fails changes nothing of the
\* run of any other message.
C15_SelectFailureDropsOnlyThatMessage ==
    /\ [](\A m \in Ids :
            SelectCallFailed(m)
              => /\ Finished(m)
                 /\ run[m].emoji = None
                 /\ Sends(m, "react") = 0
                 /\ run[m].raised = "none"
                 /\ run[m].escaped = "none")
    /\ [][\A m \in Ids :
            (~SelectCallFailed(m) /\ SelectCallFailed(m)')
              => \A o \in Ids \ {m} : run'[o] = run[o]]_vars

\* the selection call of one message raised and its run ended without a
\* reaction, while the other message got its reaction
C15_Witness ==
    \E m \in Ids :
        /\ run[m].got.select.kind = "raise"
        /\ Finished(m)
        /\ Sends(m, "react") = 0
        /\ \E o \in Ids \ {m} :
              /\ run[o].got.react.kind = "ok"
              /\ Finished(o)

----------------------------------------------------------------------------
(* C19 *)

\* the reaction calls of m are made on m, with the first non-whitespace
\* character of the selector's reply to m
OwnReaction(m) ==
    \A i \in DOMAIN run[m].sent :
        run[m].sent[i].op = "react"
          => /\ run[m].got.select.kind = "reply"
             /\ run[m].got.select.content # None
             /\ ~Blank(run[m].got.select.content[1])
             /\ run[m].sent[i].arg
                  = <<messages[m].id, LStrip(run[m].got.select.content[1])[1]>>

\* the kinds of the outbound calls of m, in the order issued
OpsOf(m) == [i \in DOMAIN run[m].sent |-> run[m].sent[i].op]

\* two finished runs whose messages carry the same text and attachments
\* and whose calls ended alike
SameInputs(m, o) ==
    /\ Finished(m) /\ Finished(o)
    /\ LStrip(RStrip(messages[m].content)) = LStrip(RStrip(messages[o].content))
    /\ messages[m].attachments = messages[o].attachments
    /\ run[m].got = run[o].got

\* C19: under every interleaving of two runs, a reaction is made on the
\* run's own message with the emoji of its own selector reply; two runs
\* with the same inputs and call results end alike, whatever the other
\* did meanwhile; every step changes the run of one message only, and
\* nothing else: the configuration and the messages are never written.
C19_PipelinesIndependent ==
    /\ [](\A m \in Ids :
            /\ OwnReaction(m)
            /\ \A o \in Ids :
                  SameInputs(m, o)
                    => /\ run[m].emoji = run[o].emoji
                       /\ OpsOf(m) = OpsOf(o)
                       /\ run[m].raised = run[o].raised)
    /\ [][/\ \E m \in Ids : \A o \in Ids \ {m} : run'[o] = run[o]
          /\ config' = config
          /\ supports_vision' = supports_vision
          /\ messages' = messages]_vars

\* both runs are suspended on their reaction call at once, each with the
\* emoji of its own reply
C19_Witness ==
    /\ \A m \in Ids : run[m].pc = "await_react"
    /\ \E m \in Ids : \E o \in Ids :
          /\ SelectorSaid(m, <<" ", "U+1F44D">>)
          /\ run[m].request.message = messages[m].id
          /\ run[m].request.emoji = "U+1F44D"
          /\ run[o].request.message = messages[o].id
          /\ run[o].request.emoji = "U+1F525"

----------------------------------------------------------------------------
(* C18 *)

\* no method of the pipeline is entered twice in the run of m
NoStageRepeated(m) ==
    \A i \in DOMAIN run[m].called :
        \A j \in DOMAIN run[m].called :
            run[m].called[i] = run[m].called[j] => i = j

\* C18: when every outbound call ends and every resumable coroutine is
\* resumed, the run of every message ends; at every moment a run has made
\* at most 3 downloads, 1 tone call, 1 selection call and 1 reaction call
\* and has entered no method twice; and a run suspended on a call leaves
\* the other run able to end first.
C18_EveryMessageTerminates ==
    /\ \A m \in {1, 2} : <>Finished(m)
    /\ [](\A m \in Ids :
            /\ Sends(m, "fetch") <= 3
            /\ Sends(m, "tone") <= 1
            /\ Sends(m, "select") <= 1
            /\ Sends(m, "react") <= 1
            /\ NoStageRepeated(m))

\* the message without images has ended with its reaction while the run of
\* the other, after 3 downloads, is still suspended on its selection call
C18_Witness ==
    \E m \in Ids : \E o \in Ids :
        /\ Finished(o)
        /\ run[o].got.react.kind = "ok"
        /\ Selecting(m)
        /\ Sends(m, "fetch") = 3
        /\ Sends(m, "tone") = 1

====
